---- MODULE Spec2Model ----
(***************************************************************************)
(* State-machine model of custom_components/rpi_gpio/hub.py (class Hub):   *)
(* the line registry (_config, _entities), the persistent line request     *)
(* (_lines), the chip handle, the asyncio reader registration, and the     *)
(* kernel side the hub talks to through gpiod (line ownership, physical    *)
(* levels, the edge-event buffer of the live request).                     *)
(*                                                                         *)
(* A behaviour starts either from the hub as a successful __init__ leaves   *)
(* it or from a hub in service (two sensors registered, session built and   *)
(* armed by startup).  Every public method of Hub is one action; the kernel *)
(* changing a line level is an action too.                                  *)
(* The construction itself (__init__ and verify_gpiochip) is checked under  *)
(* SpecConstruct, which starts before __init__ with any explicit path and   *)
(* any kind of device behind every candidate path.                          *)
(***************************************************************************)
EXTENDS Integers, Sequences, FiniteSets, TLC

\* ------------------------------------------------------------------ bounds
MaxSessions == 2    \* persistent line requests granted in one behaviour
MaxEvents == 2      \* edge events buffered on the live request
MaxAdds == 2        \* add_* calls that write the registry in one behaviour
MaxCalls == 3       \* operations in one behaviour

Offsets == {0, 1, 2, 3}   \* the line offsets the callers use
Entities == {"e1", "e2"}
\* <<entity, port>> given to add_switch and add_sensor: every entity is placed
\* on two lines
Placements == {<<"e1", 0>>, <<"e2", 1>>, <<"e1", 2>>, <<"e2", 3>>}
Debounces == {10}
OutputActiveLows == {FALSE}   \* active_low given for output lines
InputActiveLows == BOOLEAN    \* active_low given for input lines
\* <<relay_port, state_port>> given to add_cover: both free, the state line
\* held by another consumer, the relay line held by another consumer, and the
\* same line twice
CoverPorts == {<<0, 1>>, <<0, 3>>, <<3, 1>>, <<1, 1>>}
BiasKeys == {"UP"}
DriveKeys == {"PUSH_PULL"}

\* ------------------------------------------------------- program constants
DOMAIN_NAME == "rpi_gpio"
OTHER_NAME == "other"
CoverDebounce == 50

BIAS(k) ==
    CASE k = "UP" -> "PULL_UP"
      [] k = "DOWN" -> "PULL_DOWN"
      [] k = "DISABLED" -> "DISABLED"
      [] k = "AS_IS" -> "AS_IS"

DRIVE(k) ==
    CASE k = "OPEN_DRAIN" -> "OPEN_DRAIN"
      [] k = "OPEN_SOURCE" -> "OPEN_SOURCE"
      [] k = "PUSH_PULL" -> "PUSH_PULL"

VARIABLES
    online,       \* Hub._online
    chip,         \* Hub._chip: "open" or "closed"
    lines,        \* Hub._lines: NoLines (None) or a line request record
    config,       \* Hub._config: offset -> LineSettings
    entities,     \* Hub._entities: offset -> entity
    edge_events,  \* Hub._edge_events
    is_on,        \* entity.is_on of every entity
    phys,         \* kernel: physical level of every line (TRUE = high)
    events,       \* kernel: edge events buffered on the live request
    reader,       \* event loop: fd handle_events is registered on, 0 = none
    nextFd,       \* kernel: next fresh request descriptor
    started,      \* the host-started hook has run
    adds,         \* number of add_* calls that wrote the registry
    steps,        \* number of operations so far
    closeCalls,   \* number of Chip.close() calls made by the hub
    call,         \* the last operation, its arguments and its outcome
    effects,      \* the ordered side effects of the last operation
    drained,      \* the offsets of the edge events read by the last wake
    notified,     \* <<offset, entity>> of every handle_event() of the last wake
    ctor          \* the construction: its arguments, what it probed and opened

vars == <<online, chip, lines, config, entities, edge_events, is_on, phys,
          events, reader, nextFd, started, adds, steps, closeCalls, call,
          effects, drained, notified, ctor>>

\* what an operation that "changes nothing" must leave alone
hubState == <<online, chip, lines, config, entities, edge_events, reader,
              closeCalls>>
worldState == <<is_on, phys, events, nextFd>>

\* ------------------------------------------------------------ data helpers
EmptyMap == [o \in {} |-> 0]

Put(f, k, v) == [x \in (DOMAIN f) \cup {k} |-> IF x = k THEN v ELSE f[x]]

XOR(a, b) == a # b

\* Hub._lines = None
NoLines == [fd |-> 0, cfg |-> EmptyMap, released |-> FALSE, releaseCalls |-> 0]

\* bool(self._lines): None is falsy, a LineRequest is truthy while not released
LinesNotNone(l) == l.fd # 0
LinesTruthy(l) == l.fd # 0 /\ ~l.released

\* bool(self._chip): a Chip is truthy while open
ChipNeverTruthy(c) == FALSE
ChipTruthy(c) == c = "open"

\* the offsets the live persistent request covers
Covered == IF LinesTruthy(lines) THEN DOMAIN lines.cfg ELSE {}

NoCall == [op |-> "none", result |-> "ok"]

\* an operation other than handle_events makes no notification
NoWake == drained' = <<>> /\ notified' = <<>>

\* every operation counts against the length of the behaviour; none touches
\* the record of the construction
Tick == steps < MaxCalls /\ steps' = steps + 1 /\ ctor' = ctor

\* verify_online: TRUE when it does not raise
VerifyOnline(on) == on

\* ------------------------------------------------------------ construction
\* the chip numbers N of the paths /dev/gpiochipN
Chips == {0, 1, 2, 3, 4, 5}

\* what a path is: not a GPIO chip device, a GPIO chip device whose label
\* lacks "pinctrl", a GPIO chip device whose label contains it
Kinds == {"absent", "plain", "pinctrl"}

\* a falsy path argument: no explicit path
NoPath == -1

\* the explicit paths given to __init__
Paths == {NoPath, 0, 4}

\* the order in which __init__ probes the candidates
DiscoverOrderAscending == <<0, 1, 2, 3, 4, 5>>
DiscoverOrder == <<0, 4, 1, 2, 3, 5>>

\* verify_gpiochip on a path of the given kind: what it returns and whether it
\* opened a chip handle (bound to self._chip and not closed by it)
VerifyGpiochip(kind) ==
    [ok |-> kind = "pinctrl", opened |-> kind # "absent"]

\* the discovery loop of __init__ over the candidates still to probe
RECURSIVE Discover(_, _, _, _)
Discover(order, dv, probes, opened) ==
    IF order = <<>> THEN
        [online |-> FALSE, resolved |-> NoPath, probes |-> probes, opened |-> opened]
    ELSE
        LET d == Head(order)
            v == VerifyGpiochip(dv[d])
            pr == Append(probes, d)
            op == IF v.opened THEN Append(opened, d) ELSE opened
        IN  IF v.ok THEN [online |-> TRUE, resolved |-> d, probes |-> pr, opened |-> op]
            ELSE Discover(Tail(order), dv, pr, op)

\* __init__ up to verify_online: explicit path or discovery
Locate(path, dv) ==
    IF path # NoPath THEN
        LET v == VerifyGpiochip(dv[path])
        IN  [online |-> v.ok, resolved |-> path, probes |-> <<path>>,
             opened |-> IF v.opened THEN <<path>> ELSE <<>>]
    ELSE Discover(DiscoverOrder, dv, <<>>, <<>>)

\* the record of a finished __init__(path) on a machine with the devices dv
Constructed(path, dv) ==
    LET l == Locate(path, dv)
    IN  [phase |-> "done", path |-> path, devs |-> dv, probes |-> l.probes,
         opened |-> l.opened, resolved |-> l.resolved, online |-> l.online,
         hooks |-> l.online,
         result |-> IF VerifyOnline(l.online) THEN "ok" ELSE "NotOnline"]

\* the machine of the fresh and of the running hub: the chip is /dev/gpiochip0
DefaultDevs == [d \in Chips |-> IF d = 0 THEN "pinctrl" ELSE "absent"]

\* the chip handles the hub opened and has not closed: self._chip is the last
\* one opened, the earlier ones were dropped without close()
OpenHandles ==
    {i \in 1..Len(ctor.opened) : i < Len(ctor.opened) \/ chip = "open"}

\* ------------------------------------------------------------------- Init
\* the hub as __init__ leaves it
InitFresh ==
    /\ online = TRUE
    /\ chip = "open"
    /\ lines = NoLines
    /\ config = EmptyMap
    /\ entities = EmptyMap
    /\ edge_events = FALSE
    /\ is_on = [e \in Entities |-> e = "e1"]
    /\ phys = [o \in Offsets |-> o % 2 = 0]
    /\ events = <<>>
    /\ reader = 0
    /\ nextFd = 1
    /\ started = FALSE
    /\ adds = 0
    /\ steps = 0
    /\ closeCalls = 0
    /\ call = NoCall
    /\ effects = <<>>
    /\ drained = <<>>
    /\ notified = <<>>
    /\ ctor = Constructed(NoPath, DefaultDevs)

\* ------------------------------------------------------------ kernel model
\* the offsets another consumer holds for the whole behaviour
ForeignHeld == {3}

\* gpiod.Chip.get_line_info(port): who holds the line
LineInfo(port) ==
    IF port \in ForeignHeld THEN [used |-> TRUE, consumer |-> OTHER_NAME]
    ELSE IF port \in Covered THEN [used |-> TRUE, consumer |-> DOMAIN_NAME]
    ELSE [used |-> FALSE, consumer |-> ""]

\* a line somebody holds cannot be requested again (EBUSY)
Busy(port) == port \in ForeignHeld \/ port \in Covered

\* physical level a requested OUTPUT line is driven to
Level(settings) == XOR(settings.output_value = "ACTIVE", settings.active_low)

\* levels after the kernel grants a request with configuration cfg
Drive(cfg, lv) ==
    [o \in Offsets |->
        IF o \in DOMAIN cfg /\ cfg[o].direction = "OUTPUT"
        THEN Level(cfg[o]) ELSE lv[o]]

\* ------------------------------------------------------------- hub helpers
\* verify_port_ready: TRUE when it does not raise
VerifyPortReadyNoCheck(info) == TRUE
VerifyPortReady(info) == ~(info.used /\ info.consumer # DOMAIN_NAME)

\* output_value of add_switch's LineSettings
SwitchOutputValueIgnoringInit(init_output_value, entity_is_on) ==
    IF entity_is_on THEN "ACTIVE" ELSE "INACTIVE"
SwitchOutputValue(init_output_value, entity_is_on) ==
    IF init_output_value /\ entity_is_on THEN "ACTIVE" ELSE "INACTIVE"

\* gpiod.LineSettings as add_switch builds it (other fields at their defaults)
SwitchSettings(active_low, bias, drive_mode, init_output_value, entity_is_on) ==
    [direction |-> "OUTPUT", edge_detection |-> "NONE", bias |-> BIAS(bias),
     drive |-> DRIVE(drive_mode), active_low |-> active_low,
     debounce_period |-> 0, event_clock |-> "MONOTONIC",
     output_value |-> SwitchOutputValue(init_output_value, entity_is_on)]

\* gpiod.LineSettings as add_sensor builds it (other fields at their defaults)
SensorSettings(active_low, bias, debounce, entity_is_on) ==
    [direction |-> "INPUT", edge_detection |-> "BOTH", bias |-> BIAS(bias),
     drive |-> "PUSH_PULL", active_low |-> active_low,
     debounce_period |-> debounce, event_clock |-> "REALTIME",
     output_value |-> IF entity_is_on THEN "ACTIVE" ELSE "INACTIVE"]

\* entity.is_on as add_sensor computes it from the transient read
SensorIsOnNoInvert(value, active_low) == value
SensorIsOn(value, active_low) == XOR(value, active_low)

\* The part of the state the add_* methods work on, threaded through
\* add_cover's two calls.
Hub0 ==
    [config |-> config, entities |-> entities, edge_events |-> edge_events,
     is_on |-> is_on, result |-> "ok", effects |-> <<>>]

\* add_switch
DoAddSwitchNoEntity(h, entity, port, active_low, bias, drive_mode, init_output_value) ==
    IF ~VerifyOnline(online) THEN
        [h EXCEPT !.result = "NotOnline"]
    ELSE IF ~VerifyPortReady(LineInfo(port)) THEN
        [h EXCEPT !.result = "PortInUse",
                  !.effects = h.effects \o <<"get_line_info">>]
    ELSE
        [h EXCEPT !.config = Put(h.config, port,
                                 SwitchSettings(active_low, bias, drive_mode,
                                                init_output_value, h.is_on[entity])),
                  !.effects = h.effects \o <<"get_line_info", "entities", "config">>]

DoAddSwitch(h, entity, port, active_low, bias, drive_mode, init_output_value) ==
    IF ~VerifyOnline(online) THEN
        [h EXCEPT !.result = "NotOnline"]
    ELSE IF ~VerifyPortReady(LineInfo(port)) THEN
        [h EXCEPT !.result = "PortInUse",
                  !.effects = h.effects \o <<"get_line_info">>]
    ELSE
        [h EXCEPT !.entities = Put(h.entities, port, entity),
                  !.config = Put(h.config, port,
                                 SwitchSettings(active_low, bias, drive_mode,
                                                init_output_value, h.is_on[entity])),
                  !.effects = h.effects \o <<"get_line_info", "entities", "config">>]

\* add_sensor
DoAddSensor(h, entity, port, active_low, bias, debounce) ==
    IF ~VerifyOnline(online) THEN
        [h EXCEPT !.result = "NotOnline"]
    ELSE IF ~VerifyPortReady(LineInfo(port)) THEN
        [h EXCEPT !.result = "PortInUse",
                  !.effects = h.effects \o <<"get_line_info">>]
    ELSE IF Busy(port) THEN
        \* the transient request is refused: the line is already requested
        [h EXCEPT !.result = "OSError",
                  !.effects = h.effects \o <<"get_line_info", "request_transient">>]
    ELSE
        LET value == phys[port]
            on == SensorIsOn(value, active_low)
        IN  [h EXCEPT !.is_on = [h.is_on EXCEPT ![entity] = on],
                      !.entities = Put(h.entities, port, entity),
                      !.config = Put(h.config, port,
                                     SensorSettings(active_low, bias, debounce, on)),
                      !.edge_events = TRUE,
                      !.effects = h.effects \o
                          <<"get_line_info", "request_transient", "get_value",
                            "is_on", "release_transient", "entities", "config",
                            "edge_events">>]

\* add_cover: add_switch for the relay, then add_sensor for the state line
CoverInitOutputValueDefault == TRUE
CoverInitOutputValue == FALSE

DoAddCover(h, entity, relay_port, relay_active_low, relay_bias, relay_drive, state_port, state_bias, state_active_low) ==
    LET h1 == DoAddSwitch(h, entity, relay_port, relay_active_low, relay_bias,
                          relay_drive, CoverInitOutputValue)
    IN  IF h1.result # "ok" THEN h1
        ELSE DoAddSensor(h1, entity, state_port, state_active_low, state_bias,
                         CoverDebounce)

Wrote(h) == \E i \in 1..Len(h.effects) : h.effects[i] = "config"

Commit(h) ==
    /\ Wrote(h) => adds < MaxAdds
    /\ adds' = IF Wrote(h) THEN adds + 1 ELSE adds
    /\ config' = h.config
    /\ entities' = h.entities
    /\ edge_events' = h.edge_events
    /\ is_on' = h.is_on
    /\ effects' = h.effects
    /\ NoWake
    /\ Tick
    /\ UNCHANGED <<online, chip, lines, phys, events, reader, nextFd,
                   started, closeCalls>>

AddSwitch(entity, port, active_low, bias, drive_mode, init_output_value) ==
    LET h == DoAddSwitch(Hub0, entity, port, active_low, bias, drive_mode,
                         init_output_value)
    IN  /\ Commit(h)
        /\ call' = [op |-> "add_switch", result |-> h.result]

AddSensor(entity, port, active_low, bias, debounce) ==
    LET h == DoAddSensor(Hub0, entity, port, active_low, bias, debounce)
    IN  /\ Commit(h)
        /\ call' = [op |-> "add_sensor", result |-> h.result]

AddCover(entity, relay_port, relay_active_low, relay_bias, relay_drive, state_port, state_bias, state_active_low) ==
    LET h == DoAddCover(Hub0, entity, relay_port, relay_active_low, relay_bias,
                        relay_drive, state_port, state_bias, state_active_low)
    IN  /\ Commit(h)
        /\ call' = [op |-> "add_cover", result |-> h.result]

\* ------------------------------------------------------------ the session
\* LineRequest.release(): closes the request; the kernel drops its buffer
NotReleased(l) == l
Released(l) == [l EXCEPT !.released = TRUE, !.releaseCalls = l.releaseCalls + 1]

\* why chip.request_lines(config = cfg) is refused, "ok" when it is granted
RequestOutcome(cfg, kernel_ok) ==
    IF ~ChipTruthy(chip) THEN "ChipClosedError"
    ELSE IF DOMAIN cfg = {} THEN "ValueError"
    ELSE IF (DOMAIN cfg) \cap ForeignHeld # {} THEN "OSError"
    ELSE IF ~kernel_ok THEN "OSError"
    ELSE "ok"

\* update_lines
DoUpdateLinesNoRelease(kernel_ok) ==
    LET had == FALSE
        old == IF had THEN Released(lines) ELSE lines
        pre == IF had THEN <<"release">> ELSE <<>>
        out == RequestOutcome(config, kernel_ok)
    IN  IF out = "ok" THEN
            [lines |-> [fd |-> nextFd, cfg |-> config, released |-> FALSE,
                        releaseCalls |-> 0],
             phys |-> Drive(config, phys),
             events |-> <<>>,
             nextFd |-> nextFd + 1,
             result |-> "ok",
             effects |-> pre \o <<"request_lines">>]
        ELSE
            [lines |-> old,
             phys |-> phys,
             events |-> IF had THEN <<>> ELSE events,
             nextFd |-> nextFd,
             result |-> out,
             effects |-> pre \o <<"request_lines">>]

\* update_lines: release the live request, then request every registered line
DoUpdateLines(kernel_ok) ==
    LET had == LinesTruthy(lines)
        old == IF had THEN Released(lines) ELSE lines
        pre == IF had THEN <<"release">> ELSE <<>>
        out == RequestOutcome(config, kernel_ok)
    IN  IF out = "ok" THEN
            [lines |-> [fd |-> nextFd, cfg |-> config, released |-> FALSE,
                        releaseCalls |-> 0],
             phys |-> Drive(config, phys),
             events |-> <<>>,
             nextFd |-> nextFd + 1,
             result |-> "ok",
             effects |-> pre \o <<"request_lines">>]
        ELSE
            [lines |-> old,
             phys |-> phys,
             events |-> IF had THEN <<>> ELSE events,
             nextFd |-> nextFd,
             result |-> out,
             effects |-> pre \o <<"request_lines">>]

UpdateLines(kernel_ok) ==
    /\ nextFd <= MaxSessions
    /\ LET u == DoUpdateLines(kernel_ok)
       IN  /\ lines' = u.lines
           /\ phys' = u.phys
           /\ events' = u.events
           /\ nextFd' = u.nextFd
           /\ effects' = u.effects
           /\ call' = [op |-> "update_lines", result |-> u.result]
    /\ NoWake
    /\ Tick
    /\ UNCHANGED <<online, chip, config, entities, edge_events, is_on,
                   reader, started, adds, closeCalls>>

\* startup is registered with async_listen_once: the host runs it once
\* startup: whether add_reader is reached
StartupArmsAlways(rebuilt, edge) == edge
StartupArms(rebuilt, edge) == rebuilt /\ edge

\* startup: what the hook returns when update_lines raised
StartupResultPropagating(rebuild_result) == rebuild_result
StartupResult(rebuild_result) == "ok"

Startup(kernel_ok) ==
    /\ ~started
    /\ started' = TRUE
    /\ IF ~online \/ DOMAIN config = {} THEN
            /\ call' = [op |-> "startup", result |-> "ok"]
            /\ effects' = <<>>
            /\ UNCHANGED <<lines, phys, events, nextFd, reader>>
       ELSE
            /\ nextFd <= MaxSessions
            /\ LET u == DoUpdateLines(kernel_ok)
                   arm == StartupArms(u.result = "ok", edge_events)
               IN  /\ lines' = u.lines
                   /\ phys' = u.phys
                   /\ events' = u.events
                   /\ nextFd' = u.nextFd
                   /\ reader' = IF arm THEN u.lines.fd ELSE reader
                   /\ effects' = u.effects \o
                                 (IF arm THEN <<"add_reader">> ELSE <<>>)
                   /\ call' = [op |-> "startup", result |-> StartupResult(u.result)]
    /\ NoWake
    /\ Tick
    /\ UNCHANGED <<online, chip, config, entities, edge_events, is_on,
                   adds, closeCalls>>

\* cleanup
Cleanup ==
    LET clear == DOMAIN config # {}
        rel == LinesTruthy(lines)
        relFails == rel /\ lines.released
        close == ~relFails /\ ChipTruthy(chip)
        closeFails == close /\ chip # "open"
    IN  /\ config' = IF clear THEN EmptyMap ELSE config
        /\ lines' = IF rel THEN Released(lines) ELSE lines
        /\ events' = IF rel /\ ~relFails THEN <<>> ELSE events
        /\ chip' = IF close /\ ~closeFails THEN "closed" ELSE chip
        /\ closeCalls' = IF close THEN closeCalls + 1 ELSE closeCalls
        /\ online' = IF relFails \/ closeFails THEN online ELSE FALSE
        /\ effects' = (IF clear THEN <<"config.clear">> ELSE <<>>)
                      \o (IF rel THEN <<"release">> ELSE <<>>)
                      \o (IF close THEN <<"chip.close">> ELSE <<>>)
                      \o (IF relFails \/ closeFails THEN <<>> ELSE <<"offline">>)
        /\ call' = [op |-> "cleanup",
                    result |-> IF relFails THEN "RequestReleasedError"
                                 ELSE IF closeFails THEN "ChipClosedError"
                                 ELSE "ok"]
        /\ NoWake
        /\ Tick
        /\ UNCHANGED <<entities, edge_events, is_on, phys, reader,
                       nextFd, started, adds>>

\* self._lines.set_value / get_value: why the call on l raises, "ok" otherwise
LineAccess(l, port, writing) ==
    IF l.fd = 0 THEN "AttributeError"
    ELSE IF l.released THEN "RequestReleasedError"
    ELSE IF port \notin DOMAIN l.cfg THEN "ValueError"
    ELSE IF writing /\ l.cfg[port].direction # "OUTPUT" THEN "OSError"
    ELSE "ok"

\* turn_on (value = TRUE) and turn_off (value = FALSE)
SetValue(op, port, value) ==
    LET r == IF ~VerifyOnline(online) THEN "NotOnline"
             ELSE LineAccess(lines, port, TRUE)
    IN  /\ phys' = IF r = "ok"
                   THEN [phys EXCEPT ![port] = XOR(value, lines.cfg[port].active_low)]
                   ELSE phys
        /\ effects' = IF r = "NotOnline" THEN <<>> ELSE <<"set_value">>
        /\ call' = [op |-> op, result |-> r]
        /\ NoWake
        /\ Tick
        /\ UNCHANGED <<online, chip, lines, config, entities, edge_events, is_on,
                       events, reader, nextFd, started, adds, closeCalls>>

TurnOn(port) == SetValue("turn_on", port, TRUE)

TurnOff(port) == SetValue("turn_off", port, FALSE)

\* get_line_value
GetLineValue(port) ==
    LET r == LineAccess(lines, port, FALSE)
    IN  /\ effects' = <<"get_value">>
        /\ call' = [op |-> "get_line_value", result |-> r]
        /\ NoWake
        /\ Tick
        /\ UNCHANGED <<online, chip, lines, config, entities, edge_events, is_on,
                       phys, events, reader, nextFd, started, adds, closeCalls>>

\* ----------------------------------------------------------------- events
\* the level of a line the live request watches changes: the kernel buffers
\* an edge event on the request
LineChanges(port) ==
        /\ port \in Covered
        /\ lines.cfg[port].direction = "INPUT"
        /\ lines.cfg[port].edge_detection = "BOTH"
        /\ Len(events) < MaxEvents
        /\ phys' = [phys EXCEPT ![port] = ~phys[port]]
        /\ events' = Append(events, port)
        /\ call' = [op |-> "line_changes", result |-> "ok"]
        /\ effects' = <<>>
        /\ NoWake
        /\ Tick
        /\ UNCHANGED <<online, chip, lines, config, entities, edge_events, is_on,
                       reader, nextFd, started, adds, closeCalls>>

\* the loop of handle_events over the events read: the notifications made and
\* the error that ended the loop, if any
DispatchFirstOnly(evs, ents, done) ==
    IF evs = <<>> \/ Head(evs) \notin DOMAIN ents
    THEN [notified |-> done, result |-> IF evs = <<>> THEN "ok" ELSE "KeyError"]
    ELSE [notified |-> Append(done, <<Head(evs), ents[Head(evs)]>>), result |-> "ok"]

RECURSIVE Dispatch(_, _, _)
Dispatch(evs, ents, done) ==
    IF evs = <<>> THEN [notified |-> done, result |-> "ok"]
    ELSE IF Head(evs) \notin DOMAIN ents
         THEN [notified |-> done, result |-> "KeyError"]
         ELSE Dispatch(Tail(evs), ents, Append(done, <<Head(evs), ents[Head(evs)]>>))

\* handle_events, called by the loop when the registered descriptor is readable
HandleEvents ==
    /\ Tick
    /\ reader # 0
    /\ LinesTruthy(lines)
    /\ lines.fd = reader
    /\ events # <<>>
    /\ LET d == Dispatch(events, entities, <<>>)
       IN  /\ drained' = events
           /\ notified' = d.notified
           /\ events' = <<>>
           /\ effects' = <<"read_edge_events">>
           /\ call' = [op |-> "handle_events", result |-> d.result]
    /\ UNCHANGED <<online, chip, lines, config, entities, edge_events, is_on,
                   phys, reader, nextFd, started, adds, closeCalls>>

\* ------------------------------------------------------------------- Next
Next ==
    \/ \E pl \in Placements, al \in OutputActiveLows, b \in BiasKeys,
          d \in DriveKeys, init \in BOOLEAN :
            AddSwitch(pl[1], pl[2], al, b, d, init)
    \/ \E pl \in Placements, al \in InputActiveLows, b \in BiasKeys,
          db \in Debounces :
            AddSensor(pl[1], pl[2], al, b, db)
    \/ \E e \in Entities, ports \in CoverPorts, ral \in OutputActiveLows,
          rb \in BiasKeys, rd \in DriveKeys, sb \in BiasKeys, sal \in InputActiveLows :
            AddCover(e, ports[1], ral, rb, rd, ports[2], sb, sal)
    \/ \E ok \in BOOLEAN : Startup(ok)
    \/ \E ok \in BOOLEAN : UpdateLines(ok)
    \/ Cleanup
    \/ \E p \in Offsets : TurnOn(p)
    \/ \E p \in Offsets : TurnOff(p)
    \/ \E p \in Offsets : GetLineValue(p)
    \/ \E p \in Offsets : LineChanges(p)
    \/ HandleEvents

\* The hub in service: two sensors of different entities were registered on
\* the free lines 0 and 1 by two add_sensor calls, and startup then built the
\* session over both and registered handle_events on its descriptor.
InitRunning ==
    /\ online = TRUE
    /\ chip = "open"
    /\ phys = [o \in Offsets |-> o % 2 = 0]
    /\ events = <<>>
    /\ reader = 1
    /\ nextFd = 2
    /\ started = TRUE
    /\ adds = 0
    /\ steps = 0
    /\ closeCalls = 0
    /\ drained = <<>>
    /\ notified = <<>>
    /\ ctor = Constructed(NoPath, DefaultDevs)
    /\ call = NoCall
    /\ effects = <<>>
    /\ is_on = [e \in Entities |-> IF e = "e1" THEN SensorIsOn(phys[0], FALSE)
                                               ELSE SensorIsOn(phys[1], TRUE)]
    /\ entities = (0 :> "e1") @@ (1 :> "e2")
    /\ config = (0 :> SensorSettings(FALSE, "UP", 10, is_on["e1"]))
                @@ (1 :> SensorSettings(TRUE, "UP", 10, is_on["e2"]))
    /\ edge_events = TRUE
    /\ lines = [fd |-> 1, cfg |-> config, released |-> FALSE, releaseCalls |-> 0]

Init == InitFresh \/ InitRunning

\* Before __init__: the arguments are chosen, nothing is opened, the hub's
\* fields hold what lines 36-45 assign.
InitArgs ==
    /\ online = FALSE
    /\ chip = "none"
    /\ lines = NoLines
    /\ config = EmptyMap
    /\ entities = EmptyMap
    /\ edge_events = FALSE
    /\ is_on = [e \in Entities |-> e = "e1"]
    /\ phys = [o \in Offsets |-> o % 2 = 0]
    /\ events = <<>>
    /\ reader = 0
    /\ nextFd = 1
    /\ started = FALSE
    /\ adds = 0
    /\ steps = 0
    /\ closeCalls = 0
    /\ call = NoCall
    /\ effects = <<>>
    /\ drained = <<>>
    /\ notified = <<>>
    /\ \E path \in Paths, dv \in [Chips -> Kinds] :
        ctor = [phase |-> "args", path |-> path, devs |-> dv, probes |-> <<>>,
                opened |-> <<>>, resolved |-> NoPath, online |-> FALSE,
                hooks |-> FALSE, result |-> "ok"]

\* __init__
Construct ==
    /\ ctor.phase = "args"
    /\ ctor' = Constructed(ctor.path, ctor.devs)
    /\ online' = ctor'.online
    /\ chip' = IF ctor'.opened # <<>> THEN "open" ELSE chip
    /\ call' = [op |-> "__init__", result |-> ctor'.result]
    /\ effects' = <<>>
    /\ UNCHANGED <<lines, config, entities, edge_events, is_on, phys, events,
                   reader, nextFd, started, adds, steps, closeCalls, drained,
                   notified>>

\* the host-stopping hook, registered by a construction that succeeded
HostStopping == ctor.phase = "done" /\ ctor.hooks /\ Cleanup

NextConstruct == Construct \/ HostStopping

SpecConstruct == InitArgs /\ [][NextConstruct]_vars

Spec == Init /\ [][Next]_vars

\* ------------------------------------------------------------------ claims
HasEffect(eff, name) == \E i \in 1..Len(eff) : eff[i] = name

NoRequest(eff) == ~HasEffect(eff, "request_transient") /\ ~HasEffect(eff, "request_lines")

\* C1: once startup has run, the live session covers exactly the registered
\* offsets: a value can be read through it for every registered offset and for
\* no other offset, also for a line added after startup.
C1_SessionCoversRegistry ==
    (started /\ online /\ LinesTruthy(lines)) =>
        \A o \in Offsets :
            (o \in DOMAIN config) <=> (LineAccess(lines, o, FALSE) = "ok")

\* C2 as stated: add_switch or add_sensor on an offset held by another consumer
\* always fails with the port-in-use error, leaves the registry, the session
\* and is_on unchanged, and makes no line request.
C2_ForeignAlwaysPortInUse ==
    [][\A pl \in {q \in Placements : q[2] \in ForeignHeld} :
        ( /\ call'.op \in {"add_switch", "add_sensor"}
          /\ \/ \E al \in OutputActiveLows, b \in BiasKeys, d \in DriveKeys, init \in BOOLEAN :
                    AddSwitch(pl[1], pl[2], al, b, d, init)
             \/ \E al \in InputActiveLows, b \in BiasKeys, db \in Debounces :
                    AddSensor(pl[1], pl[2], al, b, db) )
        => /\ call'.result = "PortInUse"
           /\ UNCHANGED <<config, entities, lines, is_on>>
           /\ NoRequest(effects')]_vars

\* C2 amended: add_switch or add_sensor on an offset held by another consumer
\* always fails, with the port-in-use error while the hub is online and with
\* the not-online error once it is offline; either way the registry, the
\* session and is_on are unchanged and no line request is made.
C2_ForeignRejected ==
    [][\A pl \in {q \in Placements : q[2] \in ForeignHeld} :
        ( /\ call'.op \in {"add_switch", "add_sensor"}
          /\ \/ \E al \in OutputActiveLows, b \in BiasKeys, d \in DriveKeys, init \in BOOLEAN :
                    AddSwitch(pl[1], pl[2], al, b, d, init)
             \/ \E al \in InputActiveLows, b \in BiasKeys, db \in Debounces :
                    AddSensor(pl[1], pl[2], al, b, db) )
        => /\ call'.result = IF online THEN "PortInUse" ELSE "NotOnline"
           /\ UNCHANGED <<config, entities, lines, is_on>>
           /\ NoRequest(effects')]_vars

C2_Witness ==
    /\ call.op \in {"add_switch", "add_sensor"}
    /\ call.result = "PortInUse"
    /\ online
    /\ DOMAIN config # {}

\* C3: cleanup never raises, the session is released at most once and the chip
\* closed at most once, and a cleanup of a hub that is already offline (a second
\* cleanup) leaves the hub as the first cleanup left it.
C3_CleanupIdempotent ==
    [][(call'.op = "cleanup" /\ Cleanup) =>
        /\ call'.result = "ok"
        /\ closeCalls' <= 1
        /\ lines'.releaseCalls <= 1
        /\ ~online => UNCHANGED <<hubState, worldState>>]_vars

C3_Witness ==
    /\ call.op = "cleanup"
    /\ effects = <<"offline">>
    /\ lines.released
    /\ closeCalls = 1

\* C4: a successful add_switch records ACTIVE as the line's initial value
\* exactly when init_output_value and the entity's is_on are both true, and
\* the next rebuild requests the line with that recorded value and drives it.
C4_SwitchInitialValue ==
    [][/\ \A pl \in Placements, al \in OutputActiveLows, b \in BiasKeys,
             d \in DriveKeys, init \in BOOLEAN :
            (call'.op = "add_switch" /\ call'.result = "ok"
                /\ AddSwitch(pl[1], pl[2], al, b, d, init)) =>
                (config'[pl[2]].output_value = "ACTIVE" <=> (init /\ is_on[pl[1]]))
       /\ \A ok \in BOOLEAN :
            (lines'.fd # lines.fd /\ (Startup(ok) \/ UpdateLines(ok))) =>
                \A p \in DOMAIN config :
                    config[p].direction = "OUTPUT" =>
                        /\ lines'.cfg[p].output_value = config[p].output_value
                        /\ phys'[p] = XOR(config[p].output_value = "ACTIVE",
                                          config[p].active_low)]_vars

C4_Witness ==
    /\ call.op = "startup"
    /\ LinesTruthy(lines)
    /\ \E p \in DOMAIN lines.cfg :
        /\ lines.cfg[p].direction = "OUTPUT"
        /\ lines.cfg[p].output_value = "ACTIVE"
        /\ phys[p]
    /\ \E p \in DOMAIN lines.cfg :
        /\ lines.cfg[p].direction = "OUTPUT"
        /\ lines.cfg[p].output_value = "INACTIVE"
        /\ entities[p] = "e1"

\* C5: a successful add_sensor makes one transient request for the line, reads
\* it once, sets the entity's is_on to the physical level XOR active_low and
\* releases the transient request, all before it writes the registry; no live
\* persistent session holds the line at that time and the call builds none.
C5_SensorTransientRead ==
    [][\A pl \in Placements, al \in InputActiveLows, b \in BiasKeys,
          db \in Debounces :
        (call'.op = "add_sensor" /\ call'.result = "ok"
            /\ AddSensor(pl[1], pl[2], al, b, db)) =>
            /\ effects' = <<"get_line_info", "request_transient", "get_value",
                            "is_on", "release_transient", "entities", "config",
                            "edge_events">>
            /\ is_on'[pl[1]] = (phys[pl[2]] # al)
            /\ pl[2] \notin Covered
            /\ pl[2] \in DOMAIN config'
            /\ lines' = lines /\ phys' = phys]_vars

C5_Witness ==
    /\ call.op = "add_sensor"
    /\ call.result = "ok"
    /\ started
    /\ LinesTruthy(lines)
    /\ \E p \in DOMAIN config \ DOMAIN lines.cfg :
        /\ config[p].direction = "INPUT"
        /\ config[p].active_low
        /\ is_on[entities[p]] = ~phys[p]

\* C6: a successful add_cover on two different lines registers exactly those
\* two under the one entity, the relay as OUTPUT with INACTIVE whatever the
\* entity's is_on, the state line as INPUT with BOTH edges and 50 ms debounce,
\* and leaves every other registry entry as it was.
C6_CoverRegistersTwoLines ==
    [][\A e \in Entities, ports \in CoverPorts, ral \in OutputActiveLows,
          rb \in BiasKeys, rd \in DriveKeys, sb \in BiasKeys, sal \in InputActiveLows :
        ( /\ call'.op = "add_cover"
          /\ call'.result = "ok"
          /\ ports[1] # ports[2]
          /\ AddCover(e, ports[1], ral, rb, rd, ports[2], sb, sal) ) =>
            /\ DOMAIN config' = DOMAIN config \cup {ports[1], ports[2]}
            /\ DOMAIN entities' = DOMAIN entities \cup {ports[1], ports[2]}
            /\ entities'[ports[1]] = e
            /\ entities'[ports[2]] = e
            /\ config'[ports[1]].direction = "OUTPUT"
            /\ config'[ports[1]].output_value = "INACTIVE"
            /\ config'[ports[2]].direction = "INPUT"
            /\ config'[ports[2]].edge_detection = "BOTH"
            /\ config'[ports[2]].debounce_period = 50
            /\ \A o \in DOMAIN config \ {ports[1], ports[2]} : config'[o] = config[o]
            /\ \A o \in DOMAIN entities \ {ports[1], ports[2]} :
                    entities'[o] = entities[o]]_vars

C6_Witness ==
    /\ call.op = "add_cover"
    /\ call.result = "ok"
    /\ Cardinality(DOMAIN config) = 3
    /\ \E r \in DOMAIN config :
        /\ config[r].direction = "OUTPUT"
        /\ config[r].output_value = "INACTIVE"
        /\ entities[r] = "e1"
        /\ \E s \in DOMAIN config : config[s].debounce_period = 50 /\ entities[s] = "e1"

\* C7: a wake with N buffered edge events reads all N and notifies N times, in
\* the order the events were buffered, each time the entity registered for the
\* event's offset, without raising.
C7_EventsDispatchedInOrder ==
    [][(call'.op = "handle_events" /\ HandleEvents) =>
        /\ call'.result = "ok"
        /\ drained' = events
        /\ events' = <<>>
        /\ Len(notified') = Len(events)
        /\ \A i \in 1..Len(events) :
               notified'[i] = <<events[i], entities[events[i]]>>]_vars

C7_Witness ==
    /\ call.op = "handle_events"
    /\ Len(notified) = 2
    /\ notified[1][2] # notified[2][2]
    /\ notified[1][1] > notified[2][1]

\* C8: every add_switch, add_sensor, add_cover, turn_on, turn_off and
\* get_line_value made while the hub is offline fails with the not-online
\* error and changes nothing; startup while offline builds no session.
C8_OfflineFailsNotOnline ==
    [][~online =>
        /\ call'.op \in {"add_switch", "add_sensor", "add_cover", "turn_on",
                         "turn_off", "get_line_value"} =>
                /\ call'.result = "NotOnline"
                /\ UNCHANGED <<hubState, worldState>>
        /\ call'.op = "startup" => UNCHANGED <<hubState, worldState>>]_vars

\* C9: update_lines ends either with a live session covering every registered
\* line or, when it fails, with no session object held by the hub; no later
\* call reaches a released session.
C9_RebuildAtomic ==
    /\ (call.op = "update_lines" /\ call.result = "ok") =>
            (LinesTruthy(lines) /\ DOMAIN lines.cfg = DOMAIN config)
    /\ (call.op = "update_lines" /\ call.result # "ok") => lines = NoLines
    /\ call.result # "RequestReleasedError"

\* C10: startup never raises; when its rebuild fails the hub stays online, the
\* registry is unchanged, no session is live and the reader registration is as
\* it was; with an empty registry it requests nothing and arms nothing.
C10_StartupDegrades ==
    [][\A ok \in BOOLEAN : (call'.op = "startup" /\ Startup(ok)) =>
        /\ call'.result = "ok"
        /\ (online /\ DOMAIN config # {} /\ ~LinesTruthy(lines')) =>
                /\ online'
                /\ config' = config /\ entities' = entities
                /\ reader' = reader
                /\ ~HasEffect(effects', "add_reader")
                /\ lines = NoLines => lines' = NoLines
        /\ DOMAIN config = {} =>
                /\ UNCHANGED <<hubState, worldState>>
                /\ effects' = <<>>]_vars

C10_Witness ==
    /\ call.op = "startup"
    /\ call.result = "ok"
    /\ online
    /\ edge_events
    /\ DOMAIN config # {}
    /\ HasEffect(effects, "request_lines")
    /\ lines = NoLines
    /\ reader = 0

\* a comes before b in eff whenever both are there
Before(eff, a, b) ==
    \A i, j \in 1..Len(eff) : (eff[i] = a /\ eff[j] = b) => i < j

C12_ChipLocation ==
    ctor.phase = "done" =>
        LET order == <<0, 4, 1, 2, 3, 5>>
            valid(d) == ctor.devs[d] = "pinctrl"
            n == Len(ctor.probes)
        IN  /\ ctor.path = NoPath =>
                /\ n \in 1..6
                /\ \A i \in 1..n : ctor.probes[i] = order[i]
                /\ \A i \in 1..(n - 1) : ~valid(order[i])
                /\ valid(order[n]) \/ n = 6
                /\ (ctor.result = "ok") <=> valid(order[n])
            /\ ctor.path # NoPath =>
                /\ ctor.probes = <<ctor.path>>
                /\ (ctor.result = "ok") <=> valid(ctor.path)
            /\ ctor.result # "ok" =>
                /\ ctor.result = "NotOnline"
                /\ ~ctor.online /\ ~online
                /\ ~ctor.hooks
            /\ ctor.result = "ok" =>
                /\ ctor.online /\ ctor.hooks
                /\ ctor.resolved = ctor.probes[n]
                /\ ctor.opened # <<>>
                /\ ctor.opened[Len(ctor.opened)] = ctor.resolved
                /\ (call.op = "__init__") => (online /\ chip = "open")

C12_Witness ==
    /\ call.op = "__init__"
    /\ ctor.path = NoPath
    /\ ctor.devs[0] = "plain"
    /\ ctor.devs[4] = "pinctrl"
    /\ ctor.devs[1] = "pinctrl"
    /\ ctor.result = "ok"
    /\ ctor.resolved = 4
    /\ ctor.probes = <<0, 4>>

\* C13: a rebuild (update_lines, also when startup makes it) that finds a live
\* session releases it before it issues the new request, so no two sessions
\* are live together; a session is never changed in place; the new session is
\* requested with every entry of the registry.
C13_OneSessionFullRebuild ==
    [][/\ \A ok \in BOOLEAN :
            ( /\ call'.op \in {"update_lines", "startup"}
              /\ HasEffect(effects', "request_lines")
              /\ UpdateLines(ok) \/ Startup(ok) ) =>
                /\ (lines.fd # 0 /\ ~lines.released) =>
                        /\ effects'[1] = "release"
                        /\ Before(effects', "release", "request_lines")
                        /\ lines'.fd = lines.fd => lines'.released
                /\ lines'.fd # lines.fd =>
                        /\ ~lines'.released
                        /\ lines'.cfg = config
                        /\ lines'.fd \notin {0, lines.fd}
       /\ (lines.fd # 0 /\ lines'.fd = lines.fd) =>
                /\ lines'.cfg = lines.cfg
                /\ lines.released => lines'.released]_vars

C13_Witness ==
    /\ call.op = "update_lines"
    /\ call.result = "ok"
    /\ effects = <<"release", "request_lines">>
    /\ lines.fd = 2
    /\ ~lines.released
    /\ Cardinality(DOMAIN lines.cfg) = 3
    /\ DOMAIN lines.cfg = DOMAIN config

\* C14: the reader registration changes only in a startup step, from disarmed
\* to armed on the descriptor of the session just built, and it does so
\* exactly when startup runs online with a non-empty registry, a successful
\* rebuild and a sensor registered; once armed it never changes, so no add_*
\* and no update_lines arms or re-arms it.
C14_ArmedOnceByStartup ==
    [][/\ reader' # reader =>
            /\ call'.op = "startup"
            /\ reader = 0
            /\ online /\ DOMAIN config # {} /\ edge_events
            /\ lines'.fd # 0 /\ ~lines'.released
            /\ reader' = lines'.fd
       /\ HasEffect(effects', "add_reader") =>
            /\ call'.op = "startup"
            /\ lines'.fd # 0 /\ ~lines'.released
            /\ reader' = lines'.fd
       /\ \A ok \in BOOLEAN :
            ( /\ call'.op = "startup"
              /\ Startup(ok)
              /\ online /\ DOMAIN config # {} /\ edge_events
              /\ lines'.fd # lines.fd ) =>
                /\ reader = 0
                /\ reader' = lines'.fd
                /\ HasEffect(effects', "add_reader")]_vars

C14_Witness ==
    /\ call.op = "startup"
    /\ reader # 0
    /\ reader = lines.fd
    /\ HasEffect(effects, "add_reader")
    /\ \E p \in DOMAIN config : config[p].direction = "OUTPUT"
    /\ \E p \in DOMAIN config : config[p].edge_detection = "BOTH"

\* C15: whenever a live session covers a sensor line, handle_events is
\* registered on the descriptor of that session.
C15_ReaderOnLiveSession ==
    (LinesTruthy(lines)
        /\ \E p \in DOMAIN lines.cfg : lines.cfg[p].edge_detection = "BOTH")
    => reader = lines.fd

\* C16: in every state reached once cleanup has run (the hub is offline), the
\* step that led there was not a wake of handle_events, no session is live and
\* handle_events is registered on no live descriptor.
C16_NoWakeAfterCleanup ==
    [][~online' =>
        /\ call'.op # "handle_events"
        /\ drained' = <<>> /\ notified' = <<>>
        /\ ~(lines'.fd # 0 /\ ~lines'.released)
        /\ events' = <<>>]_vars

C16_Witness ==
    /\ ~online
    /\ reader # 0
    /\ lines.fd = reader
    /\ lines.released
    /\ steps = MaxCalls
    /\ call.op # "cleanup"

\* C18: after a successful construction exactly one chip handle opened by the
\* hub is open while the hub is online, and none once cleanup has run.
C18_OneHandleOpen ==
    (ctor.phase = "done" /\ ctor.result = "ok") =>
        Cardinality(OpenHandles) = IF online THEN 1 ELSE 0

\* C19: an add_cover that raises leaves _config and _entities as they were.
C19_CoverAllOrNothing ==
    [][(call'.op = "add_cover" /\ call'.result # "ok") =>
        UNCHANGED <<config, entities>>]_vars

\* C20: every offset the live session covers has an entry in _entities; every
\* successful add_switch and add_sensor writes _entities and _config for the
\* same offset; no step removes an entry of _entities.
C20_SessionOffsetsHaveConsumer ==
    [][/\ (lines'.fd # 0 /\ ~lines'.released) =>
            DOMAIN lines'.cfg \subseteq DOMAIN entities'
       /\ DOMAIN config' \subseteq DOMAIN entities'
       /\ DOMAIN entities \subseteq DOMAIN entities'
       /\ (call'.op \in {"add_switch", "add_sensor"} /\ call'.result = "ok") =>
            \E pl \in Placements :
                /\ entities' = Put(entities, pl[2], pl[1])
                /\ DOMAIN config' = DOMAIN config \cup {pl[2]}
       /\ call'.op = "handle_events" => call'.result = "ok"]_vars

C20_Witness ==
    /\ call.op = "handle_events"
    /\ call.result = "ok"
    /\ notified # <<>>
    /\ Cardinality(DOMAIN entities) = 3
    /\ Cardinality(DOMAIN lines.cfg) = 2

====
